---- MODULE Spec2Model ----
(***************************************************************************)
(* Virtual Memory Manager (Chapter 10, vm.c): translation of logical      *)
(* addresses through a TLB, a page table and a pool of physical frames,   *)
(* with fifo and lru frame replacement.                                    *)
(*                                                                         *)
(* The frame pool and the TLB are scaled down (vm.c has 128 frames and 16 *)
(* TLB slots, and 8 page-number bits) so that frame reuse and TLB         *)
(* wrap-around happen within a few translations; the offset keeps the     *)
(* program's 8 bits.                                                       *)
(*                                                                         *)
(* The address list built by extract_page_number_and_offset is read once, *)
(* front to back, by check_tlb: the model keeps its length                *)
(* (total_translated_addresses) and the position of current_address       *)
(* (translated), and draws the content of each node when it is consumed.  *)
(*                                                                         *)
(* A frame's 256 data bytes are kept as the page image they were read     *)
(* from (ZeroImage for the zero fill of init_physical_memory); a byte is  *)
(* obtained from the image with FrameByte.                                *)
(***************************************************************************)
EXTENDS Integers, Sequences, FiniteSets, TLC

\* ---------------------------------------------------------------- sizes
PHYSICAL_MEMORY_FRAMES == 3
TLB_SIZE == 2
PAGE_NUMBER_BITS == 3
OFFSET_BITS == 8
NUMBER_OF_PAGES == 2 ^ PAGE_NUMBER_BITS
PAGE_SIZE == 2 ^ OFFSET_BITS
INT_MAX == 2147483647

\* Longest address file read, and highest page number found in it.
MaxAddresses == 6
MaxPage == 3

Frames == 0 .. (PHYSICAL_MEMORY_FRAMES - 1)
Pages == 0 .. (NUMBER_OF_PAGES - 1)
TlbSlots == 0 .. (TLB_SIZE - 1)
ZeroImage == -1

\* Lines of the address file (after atoi): the first byte of each page of
\* 0..MaxPage, byte 200 of page 0, and one value above the address width
\* that aliases byte 200 of page 1.
Addresses ==
    {p * PAGE_SIZE : p \in 0 .. MaxPage}
        \cup {200, NUMBER_OF_PAGES * PAGE_SIZE + PAGE_SIZE + 200}

\* Policies given on the command line: the two recognized ones and another.
Policies == {"fifo", "lru", "clock"}

\* What a read of the uninitialized local `value` may yield.
UninitValues == {0, 85}

VARIABLES
    pc,                          \* position in main
    replacement_algorithm,       \* argv[2]
    total_translated_addresses,
    translated,                  \* nodes of the address list consumed by check_tlb
    page_table,
    TLB,
    data,                        \* Frame.data, as a page image
    last_used,                   \* Frame.last_used
    page_fault_counter,
    next_victim_frame,
    tlb_hit_counter,
    next_tlb_entry,
    current_time,
    rec,                         \* locals of the last iteration of check_tlb and its output line
    summary,                     \* the two rates printed by main
    store_available,             \* environment: BACKING_STORE.bin can be opened
    loaded_at,                   \* history: per frame, the number of the page fault that last loaded it
    resolved_at,                 \* history: per frame, the number of the translation that last resolved to it
    output_records,              \* lines written to the output file by check_tlb
    recent_misses                \* history: pages of the latest TLB misses, at most TLB_SIZE, oldest first

vars == <<pc, replacement_algorithm, total_translated_addresses, translated,
          page_table, TLB, data, last_used, page_fault_counter, next_victim_frame,
          tlb_hit_counter, next_tlb_entry, current_time, rec, summary,
          store_available, loaded_at, resolved_at,
                   output_records, recent_misses>>

\* ------------------------------------------------------- pure functions

\* page_number = (virtual_address >> 8) & 0xFF, the mask being the page-number bits
PageNumberOf(v) == (v \div (2 ^ OFFSET_BITS)) % NUMBER_OF_PAGES

\* offset = virtual_address & 0xFF
OffsetOf(v) == v % PAGE_SIZE

\* Byte of BACKING_STORE.bin at page p, offset o (as unsigned char): a fixed
\* file content in which the pages of 0..MaxPage+1 differ at every offset
\* and no byte read is zero.
BackingStoreByte(p, o) == (p * 31 + o + 1) % 256

\* data[offset] of a frame holding image img, as unsigned char.
FrameByte(img, o) == IF img = ZeroImage THEN 0 ELSE BackingStoreByte(img, o)

\* (signed char) conversion of a byte.
SignedChar(b) == IF b >= 128 THEN b - 256 ELSE b

\* (frame_number << OFFSET_BITS) | offset; offset < 256, so the or is a sum.
physical_address_calculator(frame_number, offset) ==
    frame_number * (2 ^ OFFSET_BITS) + offset

\* The values value_calculator may return: the byte of the frame when the
\* list has a frame of that number, otherwise the uninitialized local.
value_calculator(d, frame_number, offset) ==
    IF frame_number \in Frames
    THEN {SignedChar(FrameByte(d[frame_number], offset))}
    ELSE UninitValues

\* Mutant: the scan of the TLB starts at slot 1.
TlbLookup_SkipFirst(tlb, page) ==
    IF \E i \in TlbSlots \ {0} : tlb[i].page_number = page
    THEN CHOOSE i \in TlbSlots \ {0} :
            /\ tlb[i].page_number = page
            /\ \A j \in TlbSlots \ {0} : tlb[j].page_number = page => i <= j
    ELSE -1

\* First TLB index whose page_number matches, or -1.
TlbLookup(tlb, page) ==
    IF \E i \in TlbSlots : tlb[i].page_number = page
    THEN CHOOSE i \in TlbSlots :
            /\ tlb[i].page_number = page
            /\ \A j \in TlbSlots : tlb[j].page_number = page => i <= j
    ELSE -1

\* Mutant: the cursor wraps one frame early.
FifoVictim_EarlyWrap(nvf) == IF nvf >= PHYSICAL_MEMORY_FRAMES - 1 THEN 0 ELSE nvf

\* select_victim_frame_fifo: the frame returned ...
FifoVictim(nvf) == IF nvf >= PHYSICAL_MEMORY_FRAMES THEN 0 ELSE nvf

\* ... and the cursor it leaves.
FifoNext(nvf) == FifoVictim(nvf) + 1

\* select_victim_frame_lru: the scan of the frame list from frame i on, with
\* the minimum found so far and the frame holding it.
RECURSIVE LruScan(_, _, _, _)
LruScan(lu, i, min_last_used, lru_frame) ==
    IF i >= PHYSICAL_MEMORY_FRAMES
    THEN lru_frame
    ELSE IF lu[i] < min_last_used
         THEN LruScan(lu, i + 1, lu[i], i)
         ELSE LruScan(lu, i + 1, min_last_used, lru_frame)

\* Mutant: the scan compares with <=, keeping the last frame of minimum stamp.
RECURSIVE LruScan_LastMin(_, _, _, _)
LruScan_LastMin(lu, i, min_last_used, lru_frame) ==
    IF i >= PHYSICAL_MEMORY_FRAMES
    THEN lru_frame
    ELSE IF lu[i] <= min_last_used
         THEN LruScan_LastMin(lu, i + 1, lu[i], i)
         ELSE LruScan_LastMin(lu, i + 1, min_last_used, lru_frame)

select_victim_frame_lru_LastMin(lu) == LruScan_LastMin(lu, 0, INT_MAX, 0)

select_victim_frame_lru(lu) == LruScan(lu, 0, INT_MAX, 0)

\* Mutant: the owner of the victim frame is not looked for.
PreviousPage_NotFound(pt, victim_frame) == -1

\* The first page whose entry is victim_frame, or -1.
PreviousPage(pt, victim_frame) ==
    IF \E i \in Pages : pt[i] = victim_frame
    THEN CHOOSE i \in Pages :
            /\ pt[i] = victim_frame
            /\ \A j \in Pages : pt[j] = victim_frame => i <= j
    ELSE -1

\* Mutant: the page is mapped and stamped but its bytes are not read into the
\* frame.
load_page_into_frame_NoRead(pt, d, lu, ct, victim_frame, page_number, opened) ==
    IF ~opened
    THEN [pt |-> pt, d |-> d, lu |-> lu, ct |-> ct]
    ELSE LET previous_page == PreviousPage(pt, victim_frame)
             pt1 == IF previous_page # -1
                    THEN [pt EXCEPT ![previous_page] = -1]
                    ELSE pt
         IN [pt |-> [pt1 EXCEPT ![page_number] = victim_frame],
             d |-> d,
             lu |-> [lu EXCEPT ![victim_frame] = ct],
             ct |-> ct + 1]

\* load_page_into_frame: page table, frame data, stamps and clock after the
\* call; nothing changes when the backing store does not open.
load_page_into_frame(pt, d, lu, ct, victim_frame, page_number, opened) ==
    IF ~opened
    THEN [pt |-> pt, d |-> d, lu |-> lu, ct |-> ct]
    ELSE LET previous_page == PreviousPage(pt, victim_frame)
             pt1 == IF previous_page # -1
                    THEN [pt EXCEPT ![previous_page] = -1]
                    ELSE pt
         IN [pt |-> [pt1 EXCEPT ![page_number] = victim_frame],
             d |-> [d EXCEPT ![victim_frame] = page_number],
             lu |-> [lu EXCEPT ![victim_frame] = ct],
             ct |-> ct + 1]

\* handle_page_fault: as load_page_into_frame, with the victim cursor; an
\* unknown policy returns before anything is changed.
handle_page_fault(pt, d, lu, ct, nvf, page_number, algorithm, opened) ==
    IF algorithm \notin {"fifo", "lru"}
    THEN [pt |-> pt, d |-> d, lu |-> lu, ct |-> ct, nvf |-> nvf, victim |-> -1]
    ELSE LET victim_frame == IF algorithm = "fifo"
                             THEN FifoVictim(nvf)
                             ELSE select_victim_frame_lru(lu)
             nvf1 == IF algorithm = "fifo" THEN FifoNext(nvf) ELSE nvf
             l == load_page_into_frame(pt, d, lu, ct, victim_frame, page_number, opened)
         IN [pt |-> [l.pt EXCEPT ![page_number] = victim_frame],
             d |-> l.d, lu |-> l.lu, ct |-> l.ct, nvf |-> nvf1, victim |-> victim_frame]

\* Mutant: the hit is counted in the scan and again in the hit branch.
CountTlbHit_Twice(counter) == counter + 2

\* tlb_hit_counter++ in the TLB scan.
CountTlbHit(counter) == counter + 1

\* Mutant: the entry of a page mapped to frame 0 is taken as unmapped.
IsPageFault_ZeroUnmapped(pt, page) == pt[page] <= 0

\* The page-fault test of check_tlb.
IsPageFault(pt, page) == pt[page] < 0

\* Mutant: the clock advances but the resolved frame is not stamped.
Touch_NoStamp(lu, ct, frame_number) ==
    IF frame_number \in Frames
    THEN [lu |-> lu, ct |-> ct + 1]
    ELSE [lu |-> lu, ct |-> ct]

\* last_used = current_time++ on the frame of that number, when there is one.
Touch(lu, ct, frame_number) ==
    IF frame_number \in Frames
    THEN [lu |-> [lu EXCEPT ![frame_number] = ct], ct |-> ct + 1]
    ELSE [lu |-> lu, ct |-> ct]

\* Mutant: the two arguments are stored in each other's field.
update_tlb_Swapped(tlb, page_number, frame_number, tlb_entry) ==
    [tlb EXCEPT ![tlb_entry] = [page_number |-> frame_number, frame_number |-> page_number]]

\* update_tlb
update_tlb(tlb, page_number, frame_number, tlb_entry) ==
    [tlb EXCEPT ![tlb_entry] = [page_number |-> page_number, frame_number |-> frame_number]]

\* Mutant: the insertion cursor is not advanced.
NextTlbEntry_Stuck(tlb_entry) == tlb_entry

\* next_tlb_entry = (next_tlb_entry + 1) % TLB_SIZE
NextTlbEntry(tlb_entry) == (tlb_entry + 1) % TLB_SIZE

\* History: a TLB miss for page joins the latest misses, the oldest leaving
\* when there are TLB_SIZE of them already.
Missed(rm, page) ==
    IF Len(rm) < TLB_SIZE THEN Append(rm, page) ELSE Append(Tail(rm), page)

\* History: translation number n resolved to frame_number.
Resolved(ra, frame_number, n) ==
    IF frame_number \in Frames THEN [ra EXCEPT ![frame_number] = n] ELSE ra

NoRec == [kind |-> "none", virtual_address |-> 0, page_number |-> 0, offset |-> 0,
          tlb |-> -1, frame_number |-> -1, physical_address |-> 0, value |-> 0,
          victim |-> -1, opened |-> TRUE]

\* ---------------------------------------------------------------- Init

Init ==
    /\ pc = "read"
    /\ replacement_algorithm \in Policies
    /\ total_translated_addresses = 0
    /\ translated = 0
    /\ page_table = [p \in Pages |-> -1]
    /\ TLB = [i \in TlbSlots |-> [page_number |-> -1, frame_number |-> -1]]
    /\ data = [f \in Frames |-> ZeroImage]
    /\ last_used = [f \in Frames |-> 0]
    /\ page_fault_counter = 0
    /\ next_victim_frame = 0
    /\ tlb_hit_counter = 0
    /\ next_tlb_entry = 0
    /\ current_time = 0
    /\ rec = NoRec
    /\ summary = "none"
    /\ store_available = TRUE
    /\ loaded_at = [f \in Frames |-> 0]
    /\ resolved_at = [f \in Frames |-> 0]
    /\ output_records = 0
    /\ recent_misses = <<>>

\* ------------------------------------------------------------- actions

\* One iteration of the fgets loop of extract_page_number_and_offset.
ReadAddress ==
    /\ pc = "read"
    /\ total_translated_addresses < MaxAddresses
    /\ total_translated_addresses' = total_translated_addresses + 1
    /\ UNCHANGED <<pc, replacement_algorithm, translated, page_table, TLB, data,
                   last_used, page_fault_counter, next_victim_frame, tlb_hit_counter,
                   next_tlb_entry, current_time, rec, summary,
          store_available, loaded_at, resolved_at,
                   output_records, recent_misses>>

\* End of the address file: main goes on to check_tlb.
EndOfAddresses ==
    /\ pc = "read"
    /\ pc' = "translate"
    /\ UNCHANGED <<replacement_algorithm, total_translated_addresses, translated,
                   page_table, TLB, data, last_used, page_fault_counter,
                   next_victim_frame, tlb_hit_counter, next_tlb_entry, current_time,
                   rec, summary,
          store_available, loaded_at, resolved_at,
                   output_records, recent_misses>>

\* One iteration of the loop of check_tlb whose TLB scan finds the page.
TlbHit(v) ==
    /\ pc = "translate"
    /\ translated < total_translated_addresses
    /\ LET page == PageNumberOf(v)
           offset == OffsetOf(v)
           tlb_index == TlbLookup(TLB, page)
       IN /\ tlb_index # -1
          /\ \E frame_number \in {TLB[tlb_index].frame_number} :
             \E t \in {Touch(last_used, current_time, frame_number)} :
                /\ tlb_hit_counter' = CountTlbHit(tlb_hit_counter)
                /\ \E value \in value_calculator(data, frame_number, offset) :
                      rec' = [kind |-> "tlb_hit", virtual_address |-> v,
                              page_number |-> page, offset |-> offset,
                              tlb |-> tlb_index, frame_number |-> frame_number,
                              physical_address |-> physical_address_calculator(frame_number, offset),
                              value |-> value, victim |-> -1, opened |-> TRUE]
                /\ last_used' = t.lu
                /\ current_time' = t.ct
                /\ resolved_at' = Resolved(resolved_at, frame_number, translated + 1)
    /\ output_records' = output_records + 1
    /\ translated' = translated + 1
    /\ UNCHANGED <<pc, replacement_algorithm, total_translated_addresses, page_table,
                   TLB, data, page_fault_counter, next_victim_frame, next_tlb_entry,
                   summary, store_available, loaded_at, recent_misses>>

\* One iteration of the loop of check_tlb whose TLB scan misses: page-table
\* lookup, page fault when unmapped, output, TLB insertion, stamp.
TlbMiss(v) ==
    /\ pc = "translate"
    /\ translated < total_translated_addresses
    /\ LET page == PageNumberOf(v)
           offset == OffsetOf(v)
           fault == IsPageFault(page_table, page)
           reached == fault /\ replacement_algorithm \in {"fifo", "lru"}
           opened == store_available
       IN /\ TlbLookup(TLB, page) = -1
          /\ \E h \in {IF fault
                       THEN handle_page_fault(page_table, data, last_used, current_time,
                                              next_victim_frame, page,
                                              replacement_algorithm, opened)
                       ELSE [pt |-> page_table, d |-> data, lu |-> last_used,
                             ct |-> current_time, nvf |-> next_victim_frame,
                             victim |-> -1]} :
             \E frame_number \in {h.pt[page]} :
             \E t \in {Touch(h.lu, h.ct, frame_number)} :
                  /\ page_fault_counter' = IF fault THEN page_fault_counter + 1 ELSE page_fault_counter
                  /\ page_table' = h.pt
                  /\ data' = h.d
                  /\ next_victim_frame' = h.nvf
                  /\ \E value \in value_calculator(h.d, frame_number, offset) :
                        rec' = [kind |-> IF fault THEN "page_fault" ELSE "page_hit",
                                virtual_address |-> v, page_number |-> page, offset |-> offset,
                                tlb |-> next_tlb_entry, frame_number |-> frame_number,
                                physical_address |-> physical_address_calculator(frame_number, offset),
                                value |-> value, victim |-> h.victim,
                                opened |-> (reached => opened)]
                  /\ TLB' = update_tlb(TLB, page, frame_number, next_tlb_entry)
                  /\ next_tlb_entry' = NextTlbEntry(next_tlb_entry)
                  /\ recent_misses' = Missed(recent_misses, page)
                  /\ last_used' = t.lu
                  /\ current_time' = t.ct
                  /\ resolved_at' = Resolved(resolved_at, frame_number, translated + 1)
                  /\ loaded_at' = IF reached /\ opened
                                  THEN [loaded_at EXCEPT ![h.victim] = page_fault_counter + 1]
                                  ELSE loaded_at
    /\ output_records' = output_records + 1
    /\ translated' = translated + 1
    /\ UNCHANGED <<pc, replacement_algorithm, total_translated_addresses,
                   tlb_hit_counter, summary, store_available>>

\* A rate printed with three decimals; the division of a float by a zero
\* total does not yield a number.
Rate(counter, total) == IF total = 0 THEN "nan" ELSE (counter * 1000) \div total

\* The summary lines of main, after check_tlb has returned.
Summary ==
    /\ pc = "translate"
    /\ translated = total_translated_addresses
    /\ pc' = "done"
    /\ summary' = [page_fault_rate |-> Rate(page_fault_counter, total_translated_addresses),
                   tlb_hit_rate |-> Rate(tlb_hit_counter, total_translated_addresses)]
    /\ UNCHANGED <<replacement_algorithm, total_translated_addresses, translated,
                   page_table, TLB, data, last_used, page_fault_counter,
                   next_victim_frame, tlb_hit_counter, next_tlb_entry, current_time,
                   rec, store_available, loaded_at, resolved_at,
                   output_records, recent_misses>>

\* Environment: BACKING_STORE.bin is removed (or made unreadable) while
\* check_tlb runs; from then on every fopen of it returns NULL.
RemoveStore ==
    /\ pc = "translate"
    /\ translated < total_translated_addresses
    /\ store_available
    /\ store_available' = FALSE
    /\ UNCHANGED <<pc, replacement_algorithm, total_translated_addresses, translated,
                   page_table, TLB, data, last_used, page_fault_counter,
                   next_victim_frame, tlb_hit_counter, next_tlb_entry, current_time,
                   rec, summary, loaded_at, resolved_at,
                   output_records, recent_misses>>

Next ==
    \/ ReadAddress
    \/ EndOfAddresses
    \/ \E v \in Addresses : TlbHit(v)
    \/ \E v \in Addresses : TlbMiss(v)
    \/ Summary
    \/ RemoveStore

Spec == Init /\ [][Next]_vars

\* ---------------------------------------------------------------- claims

Recognized == replacement_algorithm \in {"fifo", "lru"}

Translating == translated' = translated + 1

\* C1 (as claimed): under fifo and lru, with the backing store readable, the
\* value of every output line is the backing-store byte of the address's
\* page at its offset, and the frame it was read from holds that page.
C1_ValueIsPageByte ==
    (Recognized /\ store_available /\ rec.kind # "none") =>
        /\ rec.frame_number \in Frames
        /\ data[rec.frame_number] = rec.page_number
        /\ rec.value = SignedChar(BackingStoreByte(rec.page_number, rec.offset))

\* C2 (as claimed): under fifo and lru, every translation resolves to a frame
\* of 0..PHYSICAL_MEMORY_FRAMES-1 that the page table maps to the address's
\* page when the line is written, and the physical address is that frame
\* shifted by the offset bits, or-ed with the offset.
C2_FrameIsMapped ==
    (Recognized /\ rec.kind # "none") =>
        /\ rec.frame_number \in Frames
        /\ page_table[rec.page_number] = rec.frame_number
        /\ rec.physical_address = rec.frame_number * PAGE_SIZE + rec.offset

\* C3: under fifo and lru, with the backing store readable, every page-table
\* entry is -1 or a frame number, and no frame is the entry of two pages.
C3_PageTableInjective ==
    (Recognized /\ store_available) =>
        /\ \A p \in Pages : page_table[p] = -1 \/ page_table[p] \in Frames
        /\ \A f \in Frames : Cardinality({p \in Pages : page_table[p] = f}) <= 1

\* C3 witness: a fault has just given a frame that had an owner to another page.
C3_Witness ==
    /\ Recognized
    /\ store_available
    /\ rec.kind = "page_fault"
    /\ page_fault_counter > PHYSICAL_MEMORY_FRAMES
    /\ Cardinality({p \in Pages : page_table[p] \in Frames}) = PHYSICAL_MEMORY_FRAMES

\* C4: a translation of a page whose page-table entry is mapped is not a page
\* fault: it leaves the fault counter, the page table, the fifo cursor and
\* every frame's data unchanged.
C4_MappedNeverFaults ==
    [][(Translating /\ page_table[rec'.page_number] >= 0) =>
            /\ rec'.kind \in {"tlb_hit", "page_hit"}
            /\ page_fault_counter' = page_fault_counter
            /\ page_table' = page_table
            /\ next_victim_frame' = next_victim_frame
            /\ data' = data]_vars

\* C4 witness: a page faulted in earlier, no longer in the TLB, is translated
\* through the page table, in frame 0.
C4_Witness ==
    /\ rec.kind = "page_hit"
    /\ rec.frame_number = 0
    /\ page_table[rec.page_number] = 0
    /\ page_fault_counter >= 2

C6_LruVictimIsOldest ==
    [][(/\ replacement_algorithm = "lru"
        /\ page_fault_counter' = page_fault_counter + 1
        /\ \A f \in Frames : resolved_at[f] > 0) =>
            /\ rec'.victim \in Frames
            /\ \A g \in Frames \ {rec'.victim} :
                  resolved_at[rec'.victim] < resolved_at[g]]_vars

\* C6 witness: a fault with all frames occupied whose victim is not the one
\* fifo order would take, because that frame was resolved to again.
C6_Witness ==
    /\ replacement_algorithm = "lru"
    /\ store_available
    /\ rec.kind = "page_fault"
    /\ page_fault_counter > PHYSICAL_MEMORY_FRAMES
    /\ rec.victim # (page_fault_counter - 1) % PHYSICAL_MEMORY_FRAMES

C8_RepeatIsTlbHit ==
    [][(/\ Recognized
        /\ Translating
        /\ rec.kind # "none"
        /\ rec'.page_number = rec.page_number) =>
            /\ rec'.kind = "tlb_hit"
            /\ tlb_hit_counter' = tlb_hit_counter + 1
            /\ page_fault_counter' = page_fault_counter
            /\ rec'.frame_number = rec.frame_number]_vars

\* C8 witness: the same page translated twice from the start: one fault,
\* then one TLB hit.
C8_Witness ==
    /\ Recognized
    /\ translated = 2
    /\ rec.kind = "tlb_hit"
    /\ page_fault_counter = 1
    /\ tlb_hit_counter = 1

\* C9: neither counter exceeds total_translated_addresses, their sum never
\* exceeds the number of addresses translated so far, a translation
\* increments at most one of them, and no counter decreases.
C9_Counters ==
    /\ [](/\ page_fault_counter <= total_translated_addresses
          /\ tlb_hit_counter <= total_translated_addresses
          /\ page_fault_counter + tlb_hit_counter <= translated
          /\ translated <= total_translated_addresses)
    /\ [][/\ page_fault_counter' >= page_fault_counter
          /\ tlb_hit_counter' >= tlb_hit_counter
          /\ total_translated_addresses' >= total_translated_addresses
          /\ (page_fault_counter' - page_fault_counter)
                + (tlb_hit_counter' - tlb_hit_counter) <= 1
          /\ (rec'.kind = "tlb_hit" /\ Translating) =>
                page_fault_counter' = page_fault_counter]_vars

\* C9 witness: all addresses translated, with faults, TLB hits and a
\* page-table hit among them.
C9_Witness ==
    /\ pc = "done"
    /\ total_translated_addresses = MaxAddresses
    /\ page_fault_counter >= 2
    /\ tlb_hit_counter >= 2
    /\ page_fault_counter + tlb_hit_counter < total_translated_addresses

\* C10: a translation of a page that some TLB slot holds is a TLB hit that
\* resolves to that slot's frame and leaves the page table alone, whatever
\* the page table says of the page; the witness is the stale case.
C10_TlbHitIgnoresPageTable ==
    [][(Translating /\ \E i \in TlbSlots : TLB[i].page_number = rec'.page_number) =>
            /\ rec'.kind = "tlb_hit"
            /\ rec'.tlb \in TlbSlots
            /\ TLB[rec'.tlb].page_number = rec'.page_number
            /\ rec'.frame_number = TLB[rec'.tlb].frame_number
            /\ rec'.physical_address = rec'.frame_number * PAGE_SIZE + rec'.offset
            /\ page_table' = page_table
            /\ TLB' = TLB]_vars

\* C10 witness: under fifo, a TLB hit for a page the page table no longer
\* maps, resolved to a frame that a fault gave to another page.
C10_Witness ==
    /\ replacement_algorithm = "fifo"
    /\ store_available
    /\ rec.kind = "tlb_hit"
    /\ page_table[rec.page_number] = -1
    /\ \E q \in Pages \ {rec.page_number} :
          /\ page_table[q] = rec.frame_number
          /\ data[rec.frame_number] = q
    /\ page_fault_counter > PHYSICAL_MEMORY_FRAMES

\* C11 (as claimed): a page fault whose open of the backing store fails is
\* fatal for its address: the page gets no page-table mapping, no TLB entry,
\* and no output record is written for it.
C11_FailedOpenIsFatal ==
    [][(/\ Recognized
        /\ Translating
        /\ ~store_available
        /\ TlbLookup(TLB, rec'.page_number) = -1
        /\ page_table[rec'.page_number] < 0) =>
            /\ page_table'[rec'.page_number] = -1
            /\ \A i \in TlbSlots : TLB'[i].page_number # rec'.page_number
            /\ output_records' = output_records]_vars

\* C12 (as claimed): with a policy that is neither fifo nor lru no address is
\* translated: no output record, no TLB entry written, no physical address
\* computed from an unmapped entry.
C12_UnknownPolicyTranslatesNothing ==
    ~Recognized =>
        /\ output_records = 0
        /\ \A i \in TlbSlots : TLB[i].page_number = -1
        /\ rec.kind = "none"

\* C13 (as claimed): with no address read, the summary does not divide the
\* counters by the zero total: both rates are numbers (a fallback) or the
\* summary is not printed.
C13_NoDivisionByZero ==
    (pc = "done" /\ total_translated_addresses = 0) =>
        /\ summary.page_fault_rate # "nan"
        /\ summary.tlb_hit_rate # "nan"

\* C14: under lru the victim of every page fault is the frame of minimum
\* last_used stamp, the lowest-numbered one among equals; the stamps and data
\* of the other frames, the page-table entries of pages that do not own the
\* victim and the TLB slots other than the one inserted are left as they were.
C14_LruFirstMinimum ==
    [][(replacement_algorithm = "lru" /\ page_fault_counter' = page_fault_counter + 1) =>
            /\ rec'.victim \in Frames
            /\ \A g \in Frames : last_used[rec'.victim] <= last_used[g]
            /\ \A g \in Frames : g < rec'.victim => last_used[g] > last_used[rec'.victim]
            /\ \A g \in Frames \ {rec'.victim} :
                  last_used'[g] = last_used[g] /\ data'[g] = data[g]
            /\ \A q \in Pages \ {rec'.page_number} :
                  page_table'[q] # page_table[q] => page_table[q] = rec'.victim
            /\ \A i \in TlbSlots \ {next_tlb_entry} : TLB'[i] = TLB[i]]_vars

\* C14 witness: the second fault under lru found frames 1 and up all at the
\* minimum stamp 0, frame 0 above it, and chose frame 1.
C14_Witness ==
    /\ replacement_algorithm = "lru"
    /\ rec.kind = "page_fault"
    /\ page_fault_counter = 2
    /\ rec.victim = 1
    /\ last_used[0] > 0
    /\ \A g \in Frames : g > 1 => last_used[g] = 0

TlbMisses == translated - tlb_hit_counter

\* C15: under every policy the k-th TLB miss writes (page, frame) in slot
\* (k-1) mod TLB_SIZE and leaves the other slots unchanged, so the pages of
\* the non-empty slots are exactly those of the latest min(TLB_SIZE, misses)
\* TLB-missing translations.
C15_TlbIsFifo ==
    /\ [](/\ {TLB[i].page_number : i \in {j \in TlbSlots : TLB[j].page_number # -1}}
                = {recent_misses[n] : n \in 1 .. Len(recent_misses)}
          /\ Len(recent_misses) = IF TlbMisses < TLB_SIZE THEN TlbMisses ELSE TLB_SIZE
          /\ Cardinality({j \in TlbSlots : TLB[j].page_number # -1}) = Len(recent_misses))
    /\ [][(Translating /\ rec'.kind # "tlb_hit") =>
            /\ rec'.tlb = (TlbMisses' - 1) % TLB_SIZE
            /\ TLB'[rec'.tlb] = [page_number |-> rec'.page_number,
                                 frame_number |-> rec'.frame_number]
            /\ \A i \in TlbSlots \ {rec'.tlb} : TLB'[i] = TLB[i]]_vars

\* C15 witness: after TLB hits in between, a miss beyond the first TLB_SIZE
\* misses has wrapped around to slot 0.
C15_Witness ==
    /\ rec.kind \in {"page_hit", "page_fault"}
    /\ TlbMisses = TLB_SIZE + 1
    /\ tlb_hit_counter >= 1
    /\ rec.tlb = 0
    /\ TLB[0].page_number = rec.page_number

\* The effect of a TLB-hitting translation on the frame named by the hit
\* entry and on the logical clock.
HitStamps ==
    /\ rec'.frame_number \in Frames
    /\ current_time' = current_time + 1
    /\ last_used' = [last_used EXCEPT ![rec'.frame_number] = current_time]

\* What a TLB-hitting translation leaves unchanged.
HitFrame ==
    /\ tlb_hit_counter' = tlb_hit_counter + 1
    /\ UNCHANGED <<TLB, next_tlb_entry, page_table, next_victim_frame,
                   page_fault_counter, data>>

\* C16: a translation that hits in the TLB adds 1 to tlb_hit_counter and to
\* the logical clock, stamps the frame named by the hit entry with the old
\* clock, and leaves the TLB, its cursor, the page table, the FIFO victim
\* cursor, page_fault_counter and all frame data unchanged.
C16_TlbHitFrame ==
    [][(Translating /\ rec'.kind = "tlb_hit") => (HitFrame /\ HitStamps)]_vars

\* C16 under a recognized policy only (fifo or lru).
C16_TlbHitFrameRecognized ==
    [][(Recognized /\ Translating /\ rec'.kind = "tlb_hit") => (HitFrame /\ HitStamps)]_vars

\* C16 on the part that does not depend on the policy.
C16_TlbHitUnchanged ==
    [][(Translating /\ rec'.kind = "tlb_hit") => HitFrame]_vars

\* Every non-empty TLB slot (p, f) agrees with the page table.
NoStaleTlbEntry ==
    \A i \in TlbSlots :
        TLB[i].page_number # -1 => page_table[TLB[i].page_number] = TLB[i].frame_number

C18_PageTableAgreesWithFrames ==
    /\ []((Recognized /\ store_available) =>
            \A p \in Pages : page_table[p] >= 0 =>
                /\ page_table[p] \in Frames
                /\ data[page_table[p]] = p)
    /\ [][\A f \in Frames : data'[f] # data[f] =>
            /\ Translating
            /\ rec'.kind = "page_fault"
            /\ rec'.victim = f
            /\ data'[f] = rec'.page_number]_vars

\* C18 witness: a fault has reloaded a frame that held another page, after
\* TLB hits, and the frame now holds the faulting page.
C18_Witness ==
    /\ Recognized /\ store_available
    /\ rec.kind = "page_fault"
    /\ page_fault_counter > PHYSICAL_MEMORY_FRAMES
    /\ tlb_hit_counter >= 1
    /\ page_table[rec.page_number] = rec.victim
    /\ data[rec.victim] = rec.page_number

\* C19: in every reachable state, under every policy, the non-empty TLB
\* slots hold pairwise distinct page numbers, so a lookup by page number
\* matches at most one slot.
C19_TlbPagesDistinct ==
    /\ \A i, j \in TlbSlots :
          (i # j /\ TLB[i].page_number # -1) => TLB[i].page_number # TLB[j].page_number
    /\ \A p \in Pages : Cardinality({i \in TlbSlots : TLB[i].page_number = p}) <= 1

\* C19 witness: a page evicted from the TLB earlier has been inserted again
\* (a TLB miss on a mapped page) into a full TLB, after TLB hits.
C19_Witness ==
    /\ rec.kind = "page_hit"
    /\ TlbMisses > TLB_SIZE
    /\ tlb_hit_counter >= 1
    /\ \A i \in TlbSlots : TLB[i].page_number # -1
    /\ TLB[rec.tlb].page_number = rec.page_number

====
